---- MODULE Spec2Model ----
(***************************************************************************)
(* A model of the Jira MCP server (src/src/index.ts): the tool catalog,    *)
(* the call dispatcher with its catch-all, the remote request builder and  *)
(* the six handlers, each cut at its awaits on the remote service.         *)
(*                                                                         *)
(* Conventions.  A JavaScript value that may be undefined is a sequence of *)
(* length 0 (undefined) or 1 (the value).  A JavaScript object is a        *)
(* function from its own keys; an absent key is absent from the DOMAIN.    *)
(* A text is a sequence of string tokens, in the order the template        *)
(* literal concatenates them.  The strings the transition resolution       *)
(* lower-cases are sequences of characters.                                *)
(***************************************************************************)
EXTENDS Integers, Sequences, FiniteSets, TLC

VARIABLES config, pc, call, loc, outstanding, reqs, replies, resp, listed

vars == <<config, pc, call, loc, outstanding, reqs, replies, resp, listed>>

(***************************************************************************)
(* Bounds of the model.                                                    *)
(***************************************************************************)
NumInvocations == 2
MaxTransitions == 2
MaxIssues == 2
MaxComments == 1
MaxLabels == 2
MaxErrLen == 2

Invocations == 1 .. NumInvocations

(***************************************************************************)
(* JavaScript values.                                                      *)
(***************************************************************************)
Undefined == << >>

Some(v) == << v >>

\* obj.key, or undefined when the object has no such key
Get(obj, key) == IF key \in DOMAIN obj THEN Some(obj[key]) ELSE Undefined

\* maybe?.key
OptGet(maybe, key) == IF maybe = Undefined THEN Undefined ELSE Get(maybe[1], key)

\* truthiness of a string or array-less scalar: undefined and "" are falsy
TruthyStr(maybe) == maybe # Undefined /\ maybe[1] # ""

\* truthiness of a character-sequence string
TruthyChars(maybe) == maybe # Undefined /\ maybe[1] # << >>

\* truthiness of a number: undefined and 0 are falsy
TruthyNum(maybe) == maybe # Undefined /\ maybe[1] # 0

\* `${value}` of a possibly undefined string
Tpl(maybe) == IF maybe = Undefined THEN "undefined" ELSE maybe[1]

\* `${value}` of a possibly undefined character-sequence string
TplChars(maybe) == IF maybe = Undefined THEN << "undefined" >> ELSE maybe[1]

LowerChar(c) ==
  CASE c = "D" -> "d"
    [] c = "O" -> "o"
    [] c = "N" -> "n"
    [] c = "E" -> "e"
    [] OTHER -> c

\* String.prototype.toLowerCase
ToLowerCase(s) == [k \in DOMAIN s |-> LowerChar(s[k])]

\* mutant of Includes: startsWith for includes
IncludesAtStart(text, needle) ==
  Len(needle) <= Len(text) /\ SubSeq(text, 1, Len(needle)) = needle

\* String.prototype.includes on token sequences
Includes(text, needle) ==
  \E k \in 0 .. (Len(text) - Len(needle)) :
    SubSeq(text, k + 1, k + Len(needle)) = needle

\* Array.prototype.join
RECURSIVE Join(_, _)
Join(parts, sep) ==
  IF parts = << >> THEN << >>
  ELSE IF Len(parts) = 1 THEN parts[1]
  ELSE parts[1] \o sep \o Join(Tail(parts), sep)

\* all sequences over S of length at most n
SeqsUpTo(S, n) == UNION {[1 .. k -> S] : k \in 0 .. n}

\* an object with the one key k, or the empty object: an optional argument
Opt(k, V) == {<< >>} \cup {k :> v : v \in V}

(***************************************************************************)
(* Configuration: read once from the environment by the constructor.       *)
(***************************************************************************)
Environments ==
  { << >>,
    [JIRA_BASE_URL |-> "https://acme.atlassian.net",
     JIRA_EMAIL |-> "dev@acme.io",
     JIRA_API_TOKEN |-> "token"] }

\* process.env.X || fallback
EnvOr(env, key, fallback) ==
  IF TruthyStr(Get(env, key)) THEN env[key] ELSE fallback

JiraConfig(env) ==
  [baseUrl |-> EnvOr(env, "JIRA_BASE_URL", "https://your-domain.atlassian.net"),
   email |-> EnvOr(env, "JIRA_EMAIL", ""),
   apiToken |-> EnvOr(env, "JIRA_API_TOKEN", "")]

(***************************************************************************)
(* The tool catalog returned by the ListTools handler.                     *)
(***************************************************************************)
DefaultMaxResults == 50

StringProp == [type |-> "string"]

\* mutant of IssueKeySchema: the issue key is not advertised as required
IssueKeySchemaNothingRequired ==
  [properties |-> [issueKey |-> StringProp], required |-> << >>]

IssueKeySchema ==
  [properties |-> [issueKey |-> StringProp], required |-> << "issueKey" >>]

ToolCatalog ==
  << [name |-> "jira_get_issue", inputSchema |-> IssueKeySchema],
     [name |-> "jira_search_issues",
      inputSchema |->
        [properties |->
           [jql |-> StringProp,
            maxResults |-> [type |-> "number", default |-> DefaultMaxResults]],
         required |-> << "jql" >>]],
     [name |-> "jira_get_issue_comments", inputSchema |-> IssueKeySchema],
     [name |-> "jira_get_transitions", inputSchema |-> IssueKeySchema],
     [name |-> "jira_update_issue",
      inputSchema |->
        [properties |->
           [issueKey |-> StringProp, transition |-> StringProp,
            assignee |-> StringProp, summary |-> StringProp,
            description |-> StringProp, priority |-> StringProp],
         required |-> << "issueKey" >>]],
     [name |-> "jira_create_issue",
      inputSchema |->
        [properties |->
           [projectKey |-> StringProp, summary |-> StringProp,
            description |-> StringProp,
            issueType |-> [type |-> "string", default |-> "Task"],
            priority |-> StringProp, assignee |-> StringProp,
            labels |-> [type |-> "array"]],
         required |-> << "projectKey", "summary" >>]] >>

(***************************************************************************)
(* The remote request builder: the axios config of one outbound request.   *)
(***************************************************************************)
\* Buffer.from(`${email}:${apiToken}`).toString('base64')
Base64(cfg) == << "base64(", cfg.email, ":", cfg.apiToken, ")" >>

\* a builder that declares the JSON content type whatever the method
makeJiraRequestAlwaysJson(cfg, endpoint, options) ==
  LET method == IF TruthyStr(OptGet(options, "method"))
                THEN options[1].method ELSE "GET"
  IN  [method |-> method,
       url |-> << cfg.baseUrl, "/rest/api/3" >> \o endpoint,
       headers |-> [Authorization |-> << "Basic " >> \o Base64(cfg),
                    Accept |-> "application/json"]
                   @@ ("Content-Type" :> "application/json")]
        @@ (IF OptGet(options, "params") # Undefined
            THEN "params" :> options[1].params ELSE << >>)
        @@ (IF OptGet(options, "data") # Undefined
            THEN "data" :> options[1].data ELSE << >>)

makeJiraRequest(cfg, endpoint, options) ==
  LET auth == Base64(cfg)
      apiBase == << cfg.baseUrl, "/rest/api/3" >>
      method == IF TruthyStr(OptGet(options, "method"))
                THEN options[1].method ELSE "GET"
      headers ==
        [Authorization |-> << "Basic " >> \o auth, Accept |-> "application/json"]
          @@ (IF method # "GET"
              THEN "Content-Type" :> "application/json" ELSE << >>)
  IN  [method |-> method, url |-> apiBase \o endpoint, headers |-> headers]
        @@ (IF OptGet(options, "params") # Undefined
            THEN "params" :> options[1].params ELSE << >>)
        @@ (IF OptGet(options, "data") # Undefined
            THEN "data" :> options[1].data ELSE << >>)

(***************************************************************************)
(* What a step of an async handler ends in: an await on the remote         *)
(* service, a returned envelope, or a thrown Error.                        *)
(***************************************************************************)
NoLocals == [updateResult |-> << >>, availableTransition |-> Undefined]

Await(at, request, locals) ==
  [kind |-> "await", at |-> at, request |-> request, locals |-> locals]

Return(text) ==
  [kind |-> "return",
   envelope |-> [content |-> << [type |-> "text", text |-> text] >>]]

Throw(message) == [kind |-> "throw", message |-> message]

\* the remote's reply to a request: response data, or the Error axios throws
Success(data) == [ok |-> TRUE, data |-> data]

Failure(message) == [ok |-> FALSE, message |-> message]

\* error.message of a non-2xx reply and of a transport failure
RemoteErrors ==
  { << "Request failed with status code 404" >>, << "Network Error" >> }

(***************************************************************************)
(* Get Issue.                                                              *)
(***************************************************************************)
\* A description is a sequence of atoms, each a fixed run of characters
\* chosen so that every pattern of the extractor matches whole atoms:
\*   "Ac", "AC"            the letters the pattern /ac:?/i looks for
\*   "ceptance Criteria"   what follows "Ac" in the label "Acceptance Criteria"
\*   ":", " ", "\n"        the colon and the white space
\*   "Given", "when", "then"   the words of a scenario
\*   "- [ ] ", "- [x] ", "* "  the heads of a checkbox and of a bullet
\*   any other atom        a word: it begins with a letter and holds none
\*                         of the above
WhiteSpace == {" ", "\n"}

AcAtoms == {"Ac", "AC"}

CheckboxHeads == {"- [ ] ", "- [x] "}

BulletHeads == {"* "}

\* the atoms [A-Z] matches under the i flag: those that begin with a letter
BeginsWithLetter(atom) ==
  atom \notin WhiteSpace \cup CheckboxHeads \cup BulletHeads \cup {":", "*", "- [ ]", "- [x]"}

\* the least position from `from` on that passes, or Len(text) + 1
RECURSIVE SectionEnd(_, _)
\* (?=\n\n|\n[A-Z]|$) after the lazy (.*?): where the section stops
SectionEnd(text, from) ==
  IF from > Len(text) THEN from
  ELSE IF /\ text[from] = "\n"
          /\ from < Len(text)
          /\ (text[from + 1] = "\n" \/ BeginsWithLetter(text[from + 1]))
       THEN from
       ELSE SectionEnd(text, from + 1)

RECURSIVE SkipWhiteSpace(_, _)
\* \s* : past the white space from `from` on
SkipWhiteSpace(text, from) ==
  IF from <= Len(text) /\ text[from] \in WhiteSpace
  THEN SkipWhiteSpace(text, from + 1) ELSE from

\* the length of the label at position k: /acceptance criteria:?/i when
\* `long`, /ac:?/i otherwise; 0 when there is none
LabelLength(text, k, long) ==
  LET word == IF long THEN 2 ELSE 1
      there == /\ k + word - 1 <= Len(text)
               /\ text[k] \in AcAtoms
               /\ long => text[k + 1] = "ceptance Criteria"
  IN  IF ~there THEN 0
      ELSE IF k + word <= Len(text) /\ text[k + word] = ":"
           THEN word + 1 ELSE word

RECURSIVE SectionMatches(_, _, _)
\* description.match(/label:?\s*(.*?)(?=\n\n|\n[A-Z]|$)/gsi) from `from` on
SectionMatches(text, from, long) ==
  LET starts == {k \in from .. Len(text) : LabelLength(text, k, long) > 0}
  IN  IF starts = {} THEN << >>
      ELSE
        LET start == CHOOSE k \in starts : \A j \in starts : k <= j
            stop == SectionEnd(text,
                      SkipWhiteSpace(text, start + LabelLength(text, start, long)))
        IN  << SubSeq(text, start, stop - 1) >>
            \o SectionMatches(text, stop, long)

\* description.match(/given.*when.*then.*/gsi): from the first "given" that
\* a "when" and then a "then" follow, to the end of the text
ScenarioMatches(text) ==
  LET starts == {g \in DOMAIN text :
                   /\ text[g] = "Given"
                   /\ \E w \in (g + 1) .. Len(text) :
                        /\ text[w] = "when"
                        /\ \E t \in (w + 1) .. Len(text) : text[t] = "then"}
  IN  IF starts = {} THEN << >>
      ELSE << SubSeq(text, CHOOSE g \in starts : \A j \in starts : g <= j,
                     Len(text)) >>

RECURSIVE LineEnd(_, _)
\* .* without the s flag: to the end of the line
LineEnd(text, from) ==
  IF from > Len(text) \/ text[from] = "\n" THEN from
  ELSE LineEnd(text, from + 1)

RECURSIVE LineMatches(_, _, _)
\* description.match(/head.*/g) from `from` on, for the heads of a kind
LineMatches(text, from, heads) ==
  LET starts == {k \in from .. Len(text) : text[k] \in heads}
  IN  IF starts = {} THEN << >>
      ELSE
        LET start == CHOOSE k \in starts : \A j \in starts : k <= j
            stop == LineEnd(text, start + 1)
        IN  << SubSeq(text, start, stop - 1) >> \o LineMatches(text, stop, heads)

\* match.replace(/label:?/i, ''): the first label of the kind is cut out
RemoveLabel(match, long) ==
  LET starts == {k \in DOMAIN match : LabelLength(match, k, long) > 0}
  IN  IF starts = {} THEN match
      ELSE
        LET start == CHOOSE k \in starts : \A j \in starts : k <= j
        IN  SubSeq(match, 1, start - 1)
            \o SubSeq(match, start + LabelLength(match, start, long), Len(match))

\* String.prototype.trim: the white space at both ends goes, the space that
\* ends a checkbox or bullet head at the end of the text included
RECURSIVE Trim(_)
Trim(text) ==
  IF text = << >> THEN text
  ELSE IF Head(text) \in WhiteSpace THEN Trim(Tail(text))
  ELSE IF text[Len(text)] \in WhiteSpace
       THEN Trim(SubSeq(text, 1, Len(text) - 1))
  ELSE IF text[Len(text)] \in CheckboxHeads \cup BulletHeads
       THEN SubSeq(text, 1, Len(text) - 1)
            \o << CASE text[Len(text)] = "* " -> "*"
                    [] text[Len(text)] = "- [ ] " -> "- [ ]"
                    [] text[Len(text)] = "- [x] " -> "- [x]" >>
  ELSE text

\* the cleaned form of a match
Cleaned(match) == Trim(RemoveLabel(RemoveLabel(match, TRUE), FALSE))

RECURSIVE CollectCriteria(_, _)
\* matches.forEach: a cleaned match is pushed unless empty or already there
CollectCriteria(criteria, matches) ==
  IF matches = << >> THEN criteria
  ELSE
    LET cleaned == Cleaned(Head(matches))
    IN  CollectCriteria(
          IF cleaned # << >> /\ \A k \in DOMAIN criteria : criteria[k] # cleaned
          THEN Append(criteria, cleaned) ELSE criteria,
          Tail(matches))

extractAcceptanceCriteria(description) ==
  IF ~TruthyChars(description) THEN << >>
  ELSE
    LET text == description[1]
    IN  CollectCriteria(
          CollectCriteria(
            CollectCriteria(
              CollectCriteria(
                CollectCriteria(<< >>, SectionMatches(text, 1, TRUE)),
                SectionMatches(text, 1, FALSE)),
              ScenarioMatches(text)),
            LineMatches(text, 1, CheckboxHeads)),
          LineMatches(text, 1, BulletHeads))

\* `${this.config.baseUrl}/browse/${key}`
BrowseUrl(cfg, key) == << cfg.baseUrl, "/browse/", key >>

\* new Date(value).toLocaleDateString()
LocaleDate(value) == << "toLocaleDateString(", Tpl(value), ")" >>

\* x?.name || fallback text, for display names
NameOr(maybeObj, key, fallback) ==
  IF TruthyStr(OptGet(maybeObj, key)) THEN maybeObj[1][key] ELSE fallback

getIssue(cfg, issueKey) ==
  Await("getIssue",
        makeJiraRequest(cfg, << "/issue/", Tpl(issueKey) >>,
          Some([params |->
            [fields |-> "summary,status,assignee,priority,created,updated,description,issuetype,reporter,parent",
             expand |-> "renderedFields"]])),
        NoLocals)

\* the numbered list of the acceptance criteria, or 'None found'
\* a numbering that starts at 0
CriteriaSectionFromZero(acceptanceCriteria) ==
  IF Len(acceptanceCriteria) > 0
  THEN Join([k \in DOMAIN acceptanceCriteria |->
               << ToString(k - 1), ". " >> \o acceptanceCriteria[k]],
            << "\n" >>)
  ELSE << "None found" >>

CriteriaSection(acceptanceCriteria) ==
  IF Len(acceptanceCriteria) > 0
  THEN Join([k \in DOMAIN acceptanceCriteria |->
               << ToString(k), ". " >> \o acceptanceCriteria[k]],
            << "\n" >>)
  ELSE << "None found" >>

getIssueResume(cfg, rep) ==
  IF ~rep.ok THEN Throw(rep.message)
  ELSE
    LET data == rep.data
        rendered == OptGet(Get(data, "renderedFields"), "description")
        raw == OptGet(Get(data, "fields"), "description")
        description == IF TruthyChars(rendered) THEN rendered ELSE raw
        acceptanceCriteria == extractAcceptanceCriteria(description)
    IN  Return(
          << "**", data.key, ": ", data.fields.summary, "**\n\n**Status:** ",
             Tpl(OptGet(Get(data.fields, "status"), "name")),
             "\n**Assignee:** ",
             NameOr(Get(data.fields, "assignee"), "displayName", "Unassigned"),
             "\n**Priority:** ",
             Tpl(OptGet(Get(data.fields, "priority"), "name")),
             "\n**URL:** " >>
          \o BrowseUrl(cfg, data.key)
          \o << "\n\n**Description:**\n" >> \o TplChars(description)
          \o << "\n\n**Acceptance Criteria:**\n" >>
          \o CriteriaSection(acceptanceCriteria)
          \o << "\n\n**Created:** " >> \o LocaleDate(Get(data.fields, "created"))
          \o << "\n**Updated:** " >> \o LocaleDate(Get(data.fields, "updated")))

(***************************************************************************)
(* Search Issues.                                                          *)
(***************************************************************************)
searchIssues(cfg, jql, maxResults) ==
  Await("searchIssues",
        makeJiraRequest(cfg, << "/search" >>,
          Some([params |->
            [jql |-> jql, maxResults |-> maxResults,
             fields |-> "summary,status,assignee,priority,created,updated"]])),
        NoLocals)

IssueBlock(cfg, issue) ==
  << "**", issue.key, "**: ", issue.fields.summary, "\n- Status: ",
     Tpl(OptGet(Get(issue.fields, "status"), "name")),
     "\n- Assignee: ",
     NameOr(Get(issue.fields, "assignee"), "displayName", "Unassigned"),
     "\n- Priority: ",
     Tpl(OptGet(Get(issue.fields, "priority"), "name")),
     "\n- URL: " >> \o BrowseUrl(cfg, issue.key)

\* mutant of IssuesOf: the last issue is lost
IssuesOfDropLast(data) ==
  IF Get(data, "issues") # Undefined /\ data.issues # << >>
  THEN SubSeq(data.issues, 1, Len(data.issues) - 1) ELSE << >>

\* data.issues?.map(...) || []
IssuesOf(data) ==
  IF Get(data, "issues") # Undefined THEN data.issues ELSE << >>

\* a search that sends its request again on every reply
searchIssuesAgain(cfg, rep) ==
  Await("searchIssues", makeJiraRequest(cfg, << "/search" >>, Undefined),
        NoLocals)

searchIssuesResume(cfg, rep) ==
  IF ~rep.ok THEN Throw(rep.message)
  ELSE
    LET issues == IssuesOf(rep.data)
    IN  Return(<< "Found ", ToString(Len(issues)), " issues:\n\n" >>
               \o Join([k \in DOMAIN issues |-> IssueBlock(cfg, issues[k])],
                       << "\n\n" >>))

(***************************************************************************)
(* Get Issue Comments.                                                     *)
(***************************************************************************)
getIssueComments(cfg, issueKey) ==
  Await("getIssueComments",
        makeJiraRequest(cfg, << "/issue/", Tpl(issueKey), "/comment" >>, Undefined),
        NoLocals)

CommentBlock(comment) ==
  << "**", comment.author.displayName, "** (" >>
  \o LocaleDate(Get(comment, "created"))
  \o << "):\n",
        IF TruthyStr(Get(comment, "renderedBody"))
        THEN comment.renderedBody ELSE Tpl(Get(comment, "body")) >>

getIssueCommentsResume(issueKey, rep) ==
  IF ~rep.ok THEN Throw(rep.message)
  ELSE
    LET found == Get(rep.data, "comments")
        comments == IF found # Undefined THEN found[1] ELSE << >>
    IN  Return(<< "Comments for ", Tpl(issueKey), ":\n\n" >>
               \o Join([k \in DOMAIN comments |-> CommentBlock(comments[k])],
                       << "\n\n---\n\n" >>))

(***************************************************************************)
(* Get Transitions.                                                        *)
(***************************************************************************)
getTransitions(cfg, issueKey) ==
  Await("getTransitions",
        makeJiraRequest(cfg, << "/issue/", Tpl(issueKey), "/transitions" >>,
                        Undefined),
        NoLocals)

TransitionLine(transition) ==
  << "**" >> \o transition.name \o << "** (ID: " >> \o transition.id
  \o << ") -> " >> \o TplChars(OptGet(Get(transition, "to"), "name"))

getTransitionsResume(issueKey, rep) ==
  IF ~rep.ok THEN Throw(rep.message)
  ELSE
    LET found == Get(rep.data, "transitions")
        transitions == IF found # Undefined THEN found[1] ELSE << >>
    IN  Return(<< "Available transitions for ", Tpl(issueKey), ":\n\n" >>
               \o Join([k \in DOMAIN transitions |-> TransitionLine(transitions[k])],
                       << "\n" >>))

(***************************************************************************)
(* Update Issue.                                                           *)
(***************************************************************************)
\* the check mark and the ballot cross that open a report line
CheckMark == "(U+2713)"

CrossMark == "(U+2717)"

\* error.message of destructuring an undefined argument bag
DestructureError == << "Cannot destructure property of 'args' as it is undefined." >>

\* mutant of MatchesTransition: the id is compared with !== for ===
MatchesTransitionIdNegated(t, transition) ==
  ToLowerCase(t.name) = ToLowerCase(transition) \/ t.id # transition

\* mutant of MatchesTransition: the names are compared as they are
MatchesTransitionCaseSensitive(t, transition) ==
  t.name = transition \/ t.id = transition

\* the predicate of the transition lookup
MatchesTransition(t, transition) ==
  ToLowerCase(t.name) = ToLowerCase(transition) \/ t.id = transition

\* transitions?.find(...): the first transition that passes, or undefined
FindTransition(list, transition) ==
  LET hits == {k \in DOMAIN list : MatchesTransition(list[k], transition)}
  IN  IF hits = {} THEN Undefined
      ELSE Some(list[CHOOSE k \in hits : \A j \in hits : k <= j])

\* the partial fields object of the field phase
UpdateFields(a) ==
  (IF TruthyStr(Get(a, "assignee"))
   THEN "assignee" :> [emailAddress |-> a.assignee] ELSE << >>)
  @@ (IF TruthyStr(Get(a, "summary")) THEN "summary" :> a.summary ELSE << >>)
  @@ (IF TruthyStr(Get(a, "description"))
      THEN "description" :> a.description ELSE << >>)
  @@ (IF TruthyStr(Get(a, "priority"))
      THEN "priority" :> [name |-> a.priority] ELSE << >>)

\* Object.keys(fields), in insertion order
UpdateFieldKeys(fields) ==
  LET Own(k) == k \in DOMAIN fields
  IN  SelectSeq(<< "assignee", "summary", "description", "priority" >>, Own)

\* mutant of updateReturn: the no-op text is appended to every report
updateReturnAlwaysNoOp(a, updateResult) ==
  Return(<< "Update results for ", Tpl(Get(a, "issueKey")), ":\n\n" >>
         \o updateResult \o << "No updates requested" >>)

updateReturn(a, updateResult) ==
  Return(<< "Update results for ", Tpl(Get(a, "issueKey")), ":\n\n" >>
         \o (IF updateResult # << >> THEN updateResult
             ELSE << "No updates requested" >>))

\* the PUT of the field phase
updateFieldsRequest(cfg, a, updateResult) ==
  Await("updateIssue_put",
        makeJiraRequest(cfg, << "/issue/", Tpl(Get(a, "issueKey")) >>,
          Some([method |-> "PUT", data |-> [fields |-> UpdateFields(a)]])),
        [updateResult |-> updateResult, availableTransition |-> Undefined])

\* the field phase and the return that follows it
updateFieldPhase(cfg, a, updateResult) ==
  IF Len(UpdateFieldKeys(UpdateFields(a))) > 0
  THEN updateFieldsRequest(cfg, a, updateResult)
  ELSE updateReturn(a, updateResult)

StatusFailure(message) ==
  << CrossMark, " Failed to change status: " >> \o message \o << "\n" >>

TransitionNotFound(transition) ==
  << "Transition \"" >> \o transition
  \o << "\" not found. Use jira_get_transitions to see available options." >>

\* an update that starts with the field phase, whatever the transition
updateIssueFieldsFirst(cfg, args) ==
  IF args = Undefined THEN Throw(DestructureError)
  ELSE updateFieldPhase(cfg, args[1], << >>)

updateIssue(cfg, args) ==
  IF args = Undefined THEN Throw(DestructureError)
  ELSE
    LET a == args[1]
    IN  IF TruthyChars(Get(a, "transition"))
        THEN Await("updateIssue_get",
                   makeJiraRequest(cfg,
                     << "/issue/", Tpl(Get(a, "issueKey")), "/transitions" >>,
                     Undefined),
                   NoLocals)
        ELSE updateFieldPhase(cfg, a, << >>)

\* after the GET of the transitions: resolve, then POST or report
updateIssueGetResume(cfg, a, rep) ==
  IF ~rep.ok THEN updateFieldPhase(cfg, a, StatusFailure(rep.message))
  ELSE
    LET list == Get(rep.data, "transitions")
        availableTransition ==
          IF list = Undefined THEN Undefined
          ELSE FindTransition(list[1], a.transition)
    IN  IF availableTransition = Undefined
        THEN updateFieldPhase(cfg, a,
               StatusFailure(TransitionNotFound(a.transition)))
        ELSE Await("updateIssue_post",
                   makeJiraRequest(cfg,
                     << "/issue/", Tpl(Get(a, "issueKey")), "/transitions" >>,
                     Some([method |-> "POST",
                           data |-> [transition |->
                                       [id |-> availableTransition[1].id]]])),
                   [updateResult |-> << >>,
                    availableTransition |-> availableTransition])

\* after the POST of the transition
updateIssuePostResume(cfg, a, locals, rep) ==
  IF ~rep.ok THEN updateFieldPhase(cfg, a, StatusFailure(rep.message))
  ELSE
    LET to == OptGet(Get(locals.availableTransition[1], "to"), "name")
    IN  updateFieldPhase(cfg, a,
          << CheckMark, " Status changed to " >>
          \o (IF TruthyChars(to) THEN to[1] ELSE a.transition)
          \o << "\n" >>)

\* after the PUT of the fields
updateIssuePutResume(a, locals, rep) ==
  IF ~rep.ok
  THEN updateReturn(a, locals.updateResult
         \o << CrossMark, " Failed to update fields: " >> \o rep.message
         \o << "\n" >>)
  ELSE updateReturn(a, locals.updateResult
         \o << CheckMark, " Updated fields: " >>
         \o Join([k \in DOMAIN UpdateFieldKeys(UpdateFields(a)) |->
                    << UpdateFieldKeys(UpdateFields(a))[k] >>], << ", " >>)
         \o << "\n" >>)

(***************************************************************************)
(* Create Issue.                                                           *)
(***************************************************************************)
DefaultIssueType == "Task"

\* mutant of IssueTypeOf: the destructuring has no default
IssueTypeNoDefault(a) == Tpl(Get(a, "issueType"))

\* issueType = "Task" in the destructuring: the default replaces undefined only
IssueTypeOf(a) ==
  IF Get(a, "issueType") = Undefined THEN DefaultIssueType ELSE a.issueType

\* labels && labels.length > 0
HasLabels(a) == Get(a, "labels") # Undefined /\ Len(a.labels) > 0

LabelObject(label) == [name |-> label]

\* the fields object of the creation request; project.key and summary hold
\* the arguments as supplied, undefined included
CreateFields(a) ==
  [project |-> [key |-> Get(a, "projectKey")],
   summary |-> Get(a, "summary"),
   issuetype |-> [name |-> IssueTypeOf(a)]]
  @@ (IF TruthyStr(Get(a, "description"))
      THEN "description" :> a.description ELSE << >>)
  @@ (IF TruthyStr(Get(a, "priority"))
      THEN "priority" :> [name |-> a.priority] ELSE << >>)
  @@ (IF TruthyStr(Get(a, "assignee"))
      THEN "assignee" :> [emailAddress |-> a.assignee] ELSE << >>)
  @@ (IF HasLabels(a)
      THEN "labels" :> [k \in DOMAIN a.labels |-> LabelObject(a.labels[k])]
      ELSE << >>)

createIssue(cfg, args) ==
  IF args = Undefined THEN Throw(DestructureError)
  ELSE Await("createIssue",
             makeJiraRequest(cfg, << "/issue" >>,
               Some([method |-> "POST", data |-> [fields |-> CreateFields(args[1])]])),
             NoLocals)

ProjectHint(a) ==
  << "\n\nTip: Make sure the project key \"", Tpl(Get(a, "projectKey")),
     "\" exists and you have permission to create issues in it." >>

IssueTypeHint(a) ==
  << "\n\nTip: Make sure the issue type \"", IssueTypeOf(a),
     "\" is valid for this project. Common types: Task, Bug, Story, Epic." >>

PriorityHint(a) ==
  << "\n\nTip: Make sure the priority \"", Tpl(Get(a, "priority")),
     "\" is valid. Common priorities: Highest, High, Medium, Low, Lowest." >>

\* the catch of createIssue: the raw message and the hints its text calls for
HelpfulError(a, errorMessage) ==
  errorMessage
  \o (IF Includes(errorMessage, << "project" >>)
         \/ Includes(errorMessage, << "Project" >>)
      THEN ProjectHint(a) ELSE << >>)
  \o (IF Includes(errorMessage, << "issuetype" >>)
         \/ Includes(errorMessage, << "Issue ", "Type" >>)
      THEN IssueTypeHint(a) ELSE << >>)
  \o (IF Includes(errorMessage, << "priority" >>)
      THEN PriorityHint(a) ELSE << >>)

createIssueResume(cfg, a, rep) ==
  IF ~rep.ok
  THEN Return(<< CrossMark, " Failed to create issue: " >>
              \o HelpfulError(a, rep.message))
  ELSE
    LET issueKey == Tpl(Get(rep.data, "key"))
    IN  Return(
          << CheckMark, " Successfully created issue: **", issueKey,
             "**\n\n**Summary:** ", Tpl(Get(a, "summary")),
             "\n**Project:** ", Tpl(Get(a, "projectKey")),
             "\n**Issue Type:** ", IssueTypeOf(a), "\n" >>
          \o (IF TruthyStr(Get(a, "priority"))
              THEN << "**Priority:** ", a.priority >> ELSE << >>)
          \o << "\n" >>
          \o (IF TruthyStr(Get(a, "assignee"))
              THEN << "**Assignee:** ", a.assignee >> ELSE << >>)
          \o << "\n" >>
          \o (IF HasLabels(a)
              THEN << "**Labels:** " >>
                   \o Join([k \in DOMAIN a.labels |-> << a.labels[k] >>], << ", " >>)
              ELSE << >>)
          \o << "\n\n**URL:** " >> \o BrowseUrl(cfg, issueKey) \o << "\n\n" >>
          \o (IF TruthyStr(Get(a, "description"))
              THEN << "**Description:**\n", a.description >> ELSE << >>))

(***************************************************************************)
(* The dispatcher of CallTool requests and its catch-all.                  *)
(***************************************************************************)
\* (args?.maxResults as number) || 50
MaxResultsOf(args) ==
  IF TruthyNum(OptGet(args, "maxResults"))
  THEN args[1].maxResults ELSE DefaultMaxResults

\* the switch on the tool name, up to the first await
Dispatch(cfg, name, args) ==
  CASE name = "jira_get_issue" -> getIssue(cfg, OptGet(args, "issueKey"))
    [] name = "jira_search_issues" ->
         searchIssues(cfg, OptGet(args, "jql"), MaxResultsOf(args))
    [] name = "jira_get_issue_comments" ->
         getIssueComments(cfg, OptGet(args, "issueKey"))
    [] name = "jira_get_transitions" ->
         getTransitions(cfg, OptGet(args, "issueKey"))
    [] name = "jira_update_issue" -> updateIssue(cfg, args)
    [] name = "jira_create_issue" -> createIssue(cfg, args)
    [] OTHER -> Throw(<< "Unknown tool: ", name >>)

\* the continuation of the awaiting handler on the remote's reply
Continue(cfg, at, name, args, locals, rep) ==
  CASE at = "getIssue" -> getIssueResume(cfg, rep)
    [] at = "searchIssues" -> searchIssuesResume(cfg, rep)
    [] at = "getIssueComments" ->
         getIssueCommentsResume(OptGet(args, "issueKey"), rep)
    [] at = "getTransitions" ->
         getTransitionsResume(OptGet(args, "issueKey"), rep)
    [] at = "updateIssue_get" -> updateIssueGetResume(cfg, args[1], rep)
    [] at = "updateIssue_post" -> updateIssuePostResume(cfg, args[1], locals, rep)
    [] at = "updateIssue_put" -> updateIssuePutResume(args[1], locals, rep)
    [] at = "createIssue" -> createIssueResume(cfg, args[1], rep)

\* mutant of Catch: the Error is thrown on to the transport
CatchNothing(outcome) == outcome

\* the catch of the CallTool handler: a thrown Error becomes an envelope
Catch(outcome) ==
  IF outcome.kind = "throw"
  THEN Return(<< "Error: " >> \o outcome.message)
  ELSE outcome

\* the arguments the handler of a tool reads from the bag
HandlerArguments(name) ==
  CASE name = "jira_search_issues" -> {"jql", "maxResults"}
    [] name = "jira_update_issue" ->
         {"issueKey", "transition", "assignee", "summary", "description",
          "priority"}
    [] name = "jira_create_issue" ->
         {"projectKey", "summary", "description", "issueType", "priority",
          "assignee", "labels"}
    [] OTHER -> {"issueKey"}

(***************************************************************************)
(* Inputs: the calls a client can make and the replies the remote can      *)
(* give.                                                                   *)
(***************************************************************************)
ToolNames ==
  {ToolCatalog[k].name : k \in DOMAIN ToolCatalog} \cup {"jira_delete_issue"}

\* the argument bags of the tools that take an issue key
IssueKeyBags == Opt("issueKey", {"PROJ-1"})

SearchBags ==
  {a @@ b : a \in Opt("jql", {"project = PROJ"}),
            b \in Opt("maxResults", {0, 10, 50})}

TransitionValues ==
  { << "d", "o", "n", "e" >>, << "D", "O", "N", "E" >>, << "1" >>,
    << "N", "o" >> }

UpdateBags ==
  {k @@ t @@ a @@ s @@ d @@ p :
     k \in IssueKeyBags,
     t \in Opt("transition", TransitionValues),
     a \in Opt("assignee", {"ann@acme.io"}),
     s \in Opt("summary", {"New title"}),
     d \in Opt("description", {"", "New text"}),
     p \in Opt("priority", {"Low"})}

CreateBags ==
  {k @@ s @@ d @@ t @@ p @@ a @@ l :
     k \in Opt("projectKey", {"PROJ"}),
     s \in Opt("summary", {"Title"}),
     d \in Opt("description", {"", "Text"}),
     t \in Opt("issueType", {"Bug"}),
     p \in Opt("priority", {"High"}),
     a \in Opt("assignee", {"ann@acme.io"}),
     l \in Opt("labels", SeqsUpTo({"ui"}, MaxLabels))}

\* request.params.arguments: optional in the protocol
ArgumentsOf(name) ==
  {Undefined} \cup
  {Some(bag) : bag \in
     CASE name = "jira_search_issues" -> SearchBags
       [] name = "jira_update_issue" -> UpdateBags
       [] name = "jira_create_issue" -> CreateBags
       [] OTHER -> IssueKeyBags}

\* descriptions: plain text, a labelled section, a checkbox and a bullet, a
\* scenario that is also a bullet line
Descriptions ==
  { << "Plain", " ", "text" >>,
    << "Ac", "ceptance Criteria", ":", "\n", "* ", "works", "\n", "\n",
       "Notes" >>,
    << "AC", ":", " ", "works", "\n", "- [x] ", "works", "\n", "* ", "works" >>,
    << "Given", " ", "user", " ", "when", " ", "login", " ", "then", " ",
       "works", "\n", "* ", "Given", " ", "user", " ", "when", " ", "login",
       " ", "then", " ", "works" >> }

IssueFields ==
  { [summary |-> "First", status |-> [name |-> "Open"],
     assignee |-> [displayName |-> "Ann"], priority |-> [name |-> "High"],
     created |-> "2024-01-01", updated |-> "2024-01-02"],
    [summary |-> "Second"] }

SampleIssues ==
  { [key |-> "PROJ-1",
     fields |-> [summary |-> "First", status |-> [name |-> "Open"],
                 assignee |-> [displayName |-> "Ann"],
                 priority |-> [name |-> "High"]]],
    [key |-> "PROJ-2", fields |-> [summary |-> "Second"]] }

IssueDetails ==
  {[key |-> "PROJ-1", fields |-> f @@ raw] @@ rendered :
     f \in IssueFields,
     raw \in Opt("description", Descriptions),
     rendered \in Opt("renderedFields",
                      {<< >>} \cup {[description |-> d] :
                                      d \in Descriptions \cup {<< >>}})}

SampleComments ==
  { [author |-> [displayName |-> "Ann"], created |-> "2024-01-03",
     body |-> "raw body", renderedBody |-> "<p>rendered body</p>"],
    [author |-> [displayName |-> "Bob"], body |-> "raw only"] }

SampleTransitions ==
  { [id |-> << "1" >>, name |-> << "D", "o", "n", "e" >>,
     to |-> [name |-> << "C", "l", "o", "s", "e", "d" >>]],
    [id |-> << "2" >>, name |-> << "D", "o", "n", "e" >>],
    [id |-> << "2" >>, name |-> << "1" >>,
     to |-> [name |-> << "O", "p", "e", "n" >>]] }

\* the tokens of the error messages of a failed creation
ErrTokens ==
  {"project", "Project", "issuetype", "Issue ", "Type", "priority", "Priority"}

CreateErrors == SeqsUpTo(ErrTokens, MaxErrLen)

\* what the remote can reply to the request awaited at `at`
Replies(at) ==
  {Failure(m) : m \in IF at = "createIssue" THEN CreateErrors ELSE RemoteErrors}
  \cup
  {Success(d) : d \in
     CASE at = "getIssue" -> IssueDetails
       [] at = "searchIssues" ->
            Opt("issues", SeqsUpTo(SampleIssues, MaxIssues))
       [] at = "getIssueComments" ->
            Opt("comments", SeqsUpTo(SampleComments, MaxComments))
       [] at \in {"getTransitions", "updateIssue_get"} ->
            Opt("transitions", SeqsUpTo(SampleTransitions, MaxTransitions))
       [] at = "createIssue" -> {[key |-> "PROJ-2"]}
       [] OTHER -> {<< >>}}

(***************************************************************************)
(* The state machine.  pc[i] is "idle", the await point of invocation i,   *)
(* or "done" once its handler has returned the envelope resp[i].           *)
(***************************************************************************)
NoCall == [name |-> "", arguments |-> Undefined]

Init ==
  /\ config \in {JiraConfig(env) : env \in Environments}
  /\ pc = [i \in Invocations |-> "idle"]
  /\ call = [i \in Invocations |-> NoCall]
  /\ loc = [i \in Invocations |-> NoLocals]
  /\ outstanding = [i \in Invocations |-> Undefined]
  /\ reqs = [i \in Invocations |-> << >>]
  /\ resp = [i \in Invocations |-> Undefined]
  /\ replies = [i \in Invocations |-> << >>]
  /\ listed = Undefined

\* a step whose locals are kept in one place for all the invocations
StepSharedLocals(i, outcome) ==
  /\ pc' = [pc EXCEPT ![i] =
              CASE outcome.kind = "await" -> outcome.at
                [] outcome.kind = "return" -> "done"
                [] OTHER -> "escaped"]
  /\ outstanding' = [outstanding EXCEPT ![i] =
                       IF outcome.kind = "await"
                       THEN Some(outcome.request) ELSE Undefined]
  /\ reqs' = [reqs EXCEPT ![i] =
                IF outcome.kind = "await"
                THEN Append(@, outcome.request) ELSE @]
  /\ resp' = [resp EXCEPT ![i] =
                IF outcome.kind = "return"
                THEN Some(outcome.envelope) ELSE @]
  /\ loc' = [j \in Invocations |->
               IF outcome.kind = "await" THEN outcome.locals ELSE NoLocals]

\* the effect of a handler step that ended in `outcome`; an Error that
\* leaves the CallTool handler is the transport's to report ("escaped")
Step(i, outcome) ==
  IF outcome.kind = "await"
  THEN /\ pc' = [pc EXCEPT ![i] = outcome.at]
       /\ outstanding' = [outstanding EXCEPT ![i] = Some(outcome.request)]
       /\ reqs' = [reqs EXCEPT ![i] = Append(@, outcome.request)]
       /\ loc' = [loc EXCEPT ![i] = outcome.locals]
       /\ UNCHANGED resp
  ELSE /\ pc' = [pc EXCEPT ![i] =
                  IF outcome.kind = "return" THEN "done" ELSE "escaped"]
       /\ outstanding' = [outstanding EXCEPT ![i] = Undefined]
       /\ resp' = [resp EXCEPT ![i] =
                    IF outcome.kind = "return"
                    THEN Some(outcome.envelope) ELSE Undefined]
       /\ loc' = [loc EXCEPT ![i] = NoLocals]
       /\ UNCHANGED reqs

\* the ListTools handler
ListTools ==
  /\ listed' = Some([tools |-> ToolCatalog])
  /\ UNCHANGED <<config, pc, call, loc, outstanding, reqs, replies, resp>>

\* the CallTool handler, from the request to its first await or its return
CallTool(i) ==
  /\ pc[i] = "idle"
  /\ \E name \in ToolNames :
       \E args \in ArgumentsOf(name) :
         /\ call' = [call EXCEPT ![i] = [name |-> name, arguments |-> args]]
         /\ Step(i, Catch(Dispatch(config, name, args)))
  /\ UNCHANGED <<config, replies, listed>>

\* the remote answers the outstanding request of invocation i, and the
\* handler runs on from its await to the next await or to its return
Resume(i) ==
  /\ outstanding[i] # Undefined
  /\ \E rep \in Replies(pc[i]) :
       /\ replies' = [replies EXCEPT ![i] = Append(@, rep)]
       /\ Step(i, Catch(Continue(config, pc[i], call[i].name,
                                 call[i].arguments, loc[i], rep)))
  /\ UNCHANGED <<config, call, listed>>

GetIssueReply(i) ==
  /\ pc[i] = "getIssue"
  /\ Resume(i)

SearchIssuesReply(i) ==
  /\ pc[i] = "searchIssues"
  /\ Resume(i)

GetIssueCommentsReply(i) ==
  /\ pc[i] = "getIssueComments"
  /\ Resume(i)

GetTransitionsReply(i) ==
  /\ pc[i] = "getTransitions"
  /\ Resume(i)

UpdateGetReply(i) ==
  /\ pc[i] = "updateIssue_get"
  /\ Resume(i)

UpdatePostReply(i) ==
  /\ pc[i] = "updateIssue_post"
  /\ Resume(i)

UpdatePutReply(i) ==
  /\ pc[i] = "updateIssue_put"
  /\ Resume(i)

CreateIssueReply(i) ==
  /\ pc[i] = "createIssue"
  /\ Resume(i)

\* the transport writes the catalog out
DeliverList ==
  /\ listed # Undefined
  /\ listed' = Undefined
  /\ UNCHANGED <<config, pc, call, loc, outstanding, reqs, replies, resp>>

\* the transport writes the envelope out; the invocation is over
Deliver(i) ==
  /\ pc[i] \in {"done", "escaped"}
  /\ pc' = [pc EXCEPT ![i] = "idle"]
  /\ call' = [call EXCEPT ![i] = NoCall]
  /\ reqs' = [reqs EXCEPT ![i] = << >>]
  /\ resp' = [resp EXCEPT ![i] = Undefined]
  /\ replies' = [replies EXCEPT ![i] = << >>]
  /\ UNCHANGED <<config, loc, outstanding, listed>>

\* a client that awaits each response before its next request: it uses one
\* slot, and sends a request only when no response is pending
SerialInvocations == {1}

ClientIdle == listed = Undefined /\ \A i \in Invocations : pc[i] = "idle"

SerialListTools ==
  /\ ClientIdle
  /\ ListTools

SerialCallTool(i) ==
  /\ ClientIdle
  /\ CallTool(i)

Next ==
  \/ SerialListTools
  \/ DeliverList
  \/ \E i \in SerialInvocations :
       \/ SerialCallTool(i)
       \/ GetIssueReply(i)
       \/ SearchIssuesReply(i)
       \/ GetIssueCommentsReply(i)
       \/ GetTransitionsReply(i)
       \/ UpdateGetReply(i)
       \/ UpdatePostReply(i)
       \/ UpdatePutReply(i)
       \/ CreateIssueReply(i)
       \/ Deliver(i)

Spec == Init /\ [][Next]_vars

(***************************************************************************)
(* Pipelined requests: the transport hands a request to the CallTool       *)
(* handler while earlier invocations still await the remote, and the       *)
(* remote answers the outstanding requests in any order.                   *)
(***************************************************************************)
ConcurrentCalls ==
  { [name |-> "jira_get_issue", arguments |-> Some([issueKey |-> "PROJ-1"])],
    [name |-> "jira_search_issues",
     arguments |-> Some([jql |-> "project = PROJ"])],
    [name |-> "jira_get_issue_comments",
     arguments |-> Some([issueKey |-> "PROJ-1"])],
    [name |-> "jira_get_transitions",
     arguments |-> Some([issueKey |-> "PROJ-1"])],
    [name |-> "jira_update_issue",
     arguments |-> Some([issueKey |-> "PROJ-1", transition |-> << "1" >>,
                         summary |-> "New title"])],
    [name |-> "jira_update_issue",
     arguments |-> Some([issueKey |-> "PROJ-1",
                         transition |-> << "d", "o", "n", "e" >>])],
    [name |-> "jira_create_issue",
     arguments |-> Some([projectKey |-> "PROJ", summary |-> "Title"])],
    [name |-> "jira_delete_issue", arguments |-> Undefined] }

\* what the remote replies to the request awaited at `at`: a failure, or
\* one of a few of Replies(at)
ConcurrentReplies(at) ==
  { Failure(<< "Network Error" >>) }
  \cup
  {Success(d) : d \in
     CASE at = "getIssue" ->
            {[key |-> "PROJ-1", fields |-> [summary |-> "Second"]]}
       [] at = "searchIssues" -> {[issues |-> << >>]}
       [] at \in {"getTransitions", "updateIssue_get"} ->
            {[transitions |-> << t >>] :
               t \in {s \in SampleTransitions : "to" \in DOMAIN s}}
       [] at = "createIssue" -> {[key |-> "PROJ-2"]}
       [] OTHER -> {<< >>}}

\* the CallTool handler on a pipelined request
ConcurrentCallTool(i) ==
  /\ pc[i] = "idle"
  /\ \E c \in ConcurrentCalls :
       /\ call' = [call EXCEPT ![i] = c]
       /\ Step(i, Catch(Dispatch(config, c.name, c.arguments)))
  /\ UNCHANGED <<config, replies, listed>>

\* the remote answers the request invocation i awaits, and its handler
\* runs on to its next await or to its return
RemoteReply(i) ==
  /\ outstanding[i] # Undefined
  /\ \E rep \in ConcurrentReplies(pc[i]) :
       /\ replies' = [replies EXCEPT ![i] = Append(@, rep)]
       /\ Step(i, Catch(Continue(config, pc[i], call[i].name,
                                 call[i].arguments, loc[i], rep)))
  /\ UNCHANGED <<config, call, listed>>

NextConcurrent ==
  \E i \in Invocations :
    \/ ConcurrentCallTool(i)
    \/ RemoteReply(i)
    \/ Deliver(i)

SpecConcurrent == Init /\ [][NextConcurrent]_vars

\* a remote that completes every request in the end, with a reply or a
\* failure, seen by an invocation and one other running beside it
PipelinedPair == {1, 2}

NextComplete ==
  \E i \in PipelinedPair :
    \/ ConcurrentCallTool(i)
    \/ RemoteReply(i)
    \/ Deliver(i)

RequestsComplete == \A i \in PipelinedPair : WF_vars(RemoteReply(i))

SpecComplete == Init /\ [][NextComplete]_vars /\ RequestsComplete

(***************************************************************************)
(* The extractor on every short description: a client that only reads      *)
(* issues, the remote replying with any text of a few atoms.               *)
(***************************************************************************)
MaxDescriptionLen == 4

DescriptionAtoms ==
  { "Ac", "ceptance Criteria", ":", " ", "\n", "Given", "when", "then",
    "- [x] ", "* ", "works" }

\* "ceptance Criteria" is the rest of the word "Acceptance Criteria"
WellFormed(text) ==
  \A k \in DOMAIN text :
    text[k] = "ceptance Criteria" => (k > 1 /\ text[k - 1] \in AcAtoms)

ShortDescriptions ==
  {text \in SeqsUpTo(DescriptionAtoms, MaxDescriptionLen) : WellFormed(text)}

\* the CallTool handler on a jira_get_issue request
CallGetIssue(i) ==
  /\ ClientIdle
  /\ LET args == Some([issueKey |-> "PROJ-1"])
     IN  /\ call' = [call EXCEPT ![i] =
                       [name |-> "jira_get_issue", arguments |-> args]]
         /\ Step(i, Catch(Dispatch(config, "jira_get_issue", args)))
  /\ UNCHANGED <<config, replies, listed>>

\* the remote replies with an issue of some short description, and getIssue
\* runs on from its await to its return
GetIssueOfText(i) ==
  /\ pc[i] = "getIssue"
  /\ outstanding[i] # Undefined
  /\ \E text \in ShortDescriptions :
       LET rep == Success([key |-> "PROJ-1",
                           fields |-> [summary |-> "First",
                                       description |-> text]])
       IN  /\ replies' = [replies EXCEPT ![i] = Append(@, rep)]
           /\ Step(i, Catch(Continue(config, pc[i], call[i].name,
                                     call[i].arguments, loc[i], rep)))
  /\ UNCHANGED <<config, call, listed>>

NextExtract ==
  \E i \in SerialInvocations :
    \/ CallGetIssue(i)
    \/ GetIssueOfText(i)
    \/ Deliver(i)

SpecExtract == Init /\ [][NextExtract]_vars

(***************************************************************************)
(* Observations the properties are stated with.                            *)
(***************************************************************************)
CatalogNames == {ToolCatalog[k].name : k \in DOMAIN ToolCatalog}

\* the text of the one block of the envelope invocation i returned
Text(i) == resp[i][1].content[1].text

HasBag(i) == call[i].arguments # Undefined

Bag(i) == call[i].arguments[1]

Supplied(i, key) == key \in DOMAIN Bag(i)

Positions(text, tokens) == {k \in DOMAIN text : text[k] \in tokens}

\* the tokens of `part` stand side by side somewhere in `text`
Contains(text, part) ==
  \E k \in 1 .. (Len(text) - Len(part) + 1) :
    \A j \in 1 .. Len(part) : text[k + j - 1] = part[j]

MethodCount(i, method) ==
  Cardinality({k \in DOMAIN reqs[i] : reqs[i][k].method = method})

\* the tools whose handlers have no try of their own
ReadTools ==
  {"jira_get_issue", "jira_search_issues", "jira_get_issue_comments",
   "jira_get_transitions"}

\* the call failed on an unknown name or on an Error that left its handler
FailedCall(i) ==
  \/ call[i].name \notin CatalogNames
  \/ call[i].name \in {"jira_update_issue", "jira_create_issue"} /\ ~HasBag(i)
  \/ /\ call[i].name \in ReadTools
     /\ replies[i] # << >>
     /\ ~replies[i][1].ok

\* C1: every call ends in an envelope of one text block and no Error reaches
\* the transport; an unknown name or an Error leaving a handler is reported
\* with a text that begins "Error: "; an unknown name sends no request.
C1_AlwaysAnEnvelope ==
  \A i \in Invocations :
    /\ pc[i] # "escaped"
    /\ pc[i] = "done" =>
         /\ resp[i] # Undefined
         /\ Len(resp[i][1].content) = 1
         /\ resp[i][1].content[1].type = "text"
         /\ FailedCall(i) => Text(i)[1] = "Error: "
    /\ call[i].name \notin CatalogNames => reqs[i] = << >>

\* a read handler whose request failed has returned the error text
C1_Witness ==
  \E i \in Invocations :
    /\ pc[i] = "done"
    /\ call[i].name = "jira_get_issue"
    /\ replies[i] # << >> /\ ~replies[i][1].ok
    /\ Text(i) = << "Error: " >> \o replies[i][1].message

UpdateDone(i) ==
  pc[i] = "done" /\ call[i].name = "jira_update_issue" /\ HasBag(i)

\* a returned update whose bag holds the issue key its schema requires
ValidUpdateDone(i) == UpdateDone(i) /\ Supplied(i, "issueKey")

ScalarKeys == {"assignee", "summary", "description", "priority"}

StatusLines(text) ==
  Positions(text, {" Failed to change status: ", " Status changed to "})

FieldLines(text) ==
  Positions(text, {" Updated fields: ", " Failed to update fields: "})

\* one PUT, one transition line and one field line, in that order
BothPhasesReported(i) ==
  /\ MethodCount(i, "PUT") = 1
  /\ Cardinality(StatusLines(Text(i))) = 1
  /\ Cardinality(FieldLines(Text(i))) = 1
  /\ \A s \in StatusLines(Text(i)) : \A f \in FieldLines(Text(i)) : s < f

\* C2: a transition and a scalar field being supplied, the PUT is sent
\* whatever the transition phase came to, and the report holds the transition
\* line, then the field line.
C2_PhasesIsolated ==
  \A i \in Invocations :
    (ValidUpdateDone(i) /\ Supplied(i, "transition")
       /\ \E k \in ScalarKeys : Supplied(i, k))
    => BothPhasesReported(i)

NonEmptyTransition(i) == Supplied(i, "transition") /\ Bag(i).transition # << >>

NonEmptyScalar(i, key) == Supplied(i, key) /\ Bag(i)[key] # ""

\* the same of the calls whose transition and scalar field are not empty
\* strings: the phases are isolated wherever both are attempted
C2_IsolatedWhenNonEmpty ==
  \A i \in Invocations :
    (UpdateDone(i) /\ NonEmptyTransition(i)
       /\ \E k \in ScalarKeys : NonEmptyScalar(i, k))
    => BothPhasesReported(i)

\* the transition was not found and the fields were still PUT
C2_NotFoundThenPut ==
  \E i \in Invocations :
    /\ UpdateDone(i)
    /\ Len(reqs[i]) = 2
    /\ reqs[i][1].method = "GET" /\ reqs[i][2].method = "PUT"
    /\ replies[i][1].ok /\ replies[i][2].ok
    /\ Contains(Text(i), << " Failed to change status: ", "Transition \"" >>)
    /\ Contains(Text(i), << " Updated fields: " >>)

SameLetter(c, d) ==
  \/ c = d
  \/ {c, d} \in {{"D", "d"}, {"O", "o"}, {"N", "n"}, {"E", "e"}}

EqualsIgnoreCase(s, t) ==
  Len(s) = Len(t) /\ \A k \in DOMAIN s : SameLetter(s[k], t[k])

\* the indices of the fetched transitions the value names
MatchingEntries(list, value) ==
  {k \in DOMAIN list :
     EqualsIgnoreCase(list[k].name, value) \/ list[k].id = value}

\* invocation i has fetched the transitions of its issue
FetchedTransitions(i) ==
  /\ call[i].name = "jira_update_issue" /\ HasBag(i)
  /\ replies[i] # << >> /\ replies[i][1].ok
  /\ reqs[i][1].method = "GET"

TransitionList(i) ==
  IF "transitions" \in DOMAIN replies[i][1].data
  THEN replies[i][1].data.transitions ELSE << >>

NotFoundLine(i) ==
  << CrossMark, " Failed to change status: ", "Transition \"" >>
  \o Bag(i).transition
  \o << "\" not found. Use jira_get_transitions to see available options.",
        "\n" >>

\* C3: the value matching none of the fetched transitions, no POST is sent,
\* the report holds the not-found line and, no scalar field being supplied,
\* the GET is the only request of the call.
C3_TransitionNotFound ==
  \A i \in Invocations :
    (FetchedTransitions(i)
       /\ MatchingEntries(TransitionList(i), Bag(i).transition) = {})
    => /\ MethodCount(i, "POST") = 0
       /\ pc[i] = "done" =>
            /\ Contains(Text(i), NotFoundLine(i))
            /\ (\A k \in ScalarKeys : ~Supplied(i, k)) =>
                 /\ Len(reqs[i]) = 1
                 /\ MethodCount(i, "PUT") = 0

\* "No" against a list of one transition named Done: the GET and no more
C3_Witness ==
  \E i \in Invocations :
    /\ FetchedTransitions(i) /\ pc[i] = "done"
    /\ Bag(i).transition = << "N", "o" >>
    /\ Len(TransitionList(i)) = 1
    /\ TransitionList(i)[1].name = << "D", "o", "n", "e" >>
    /\ Len(reqs[i]) = 1
    /\ Contains(Text(i), NotFoundLine(i))

\* the first fetched transition the value names, as an index of the list
FirstMatch(i) ==
  LET hits == MatchingEntries(TransitionList(i), Bag(i).transition)
  IN  CHOOSE k \in hits : \A j \in hits : k <= j

\* the POST of the resolved transition is the second request of the call
PostsFirstMatch(i) ==
  /\ Len(reqs[i]) >= 2
  /\ reqs[i][2].method = "POST"
  /\ reqs[i][2].data = [transition |-> [id |-> TransitionList(i)[FirstMatch(i)].id]]
  /\ MethodCount(i, "POST") = 1

StatusToken(i) == Text(i)[CHOOSE k \in StatusLines(Text(i)) : TRUE]

\* C4 as claimed: the value resolves exactly when it equals a fetched name
\* ignoring case or a fetched id; on a match the POST carries the id of the
\* first matching transition and the phase reports success.
C4_ResolvesAndSucceeds ==
  \A i \in Invocations :
    FetchedTransitions(i) =>
      LET hits == MatchingEntries(TransitionList(i), Bag(i).transition)
      IN  /\ (hits # {}) <=> (MethodCount(i, "POST") > 0)
          /\ hits # {} =>
               /\ PostsFirstMatch(i)
               /\ pc[i] = "done" => StatusToken(i) = " Status changed to "

\* C4 amended: as C4, but the phase reports success when the POST succeeds
\* and a failure line when the POST fails.
C4_ResolvesThenPosts ==
  \A i \in Invocations :
    FetchedTransitions(i) =>
      LET hits == MatchingEntries(TransitionList(i), Bag(i).transition)
      IN  /\ (hits # {}) <=> (MethodCount(i, "POST") > 0)
          /\ hits # {} =>
               /\ PostsFirstMatch(i)
               /\ pc[i] = "done" =>
                    StatusToken(i) = IF replies[i][2].ok
                                     THEN " Status changed to "
                                     ELSE " Failed to change status: "

\* "done" resolves to the second fetched transition, named "Done", the
\* first one matching neither by name nor by id
C4_Witness ==
  \E i \in Invocations :
    /\ FetchedTransitions(i) /\ pc[i] = "done"
    /\ Bag(i).transition = << "d", "o", "n", "e" >>
    /\ Len(TransitionList(i)) = 2
    /\ TransitionList(i)[1].name = << "1" >>
    /\ TransitionList(i)[2].name = << "D", "o", "n", "e" >>
    /\ reqs[i][2].data.transition.id = TransitionList(i)[2].id
    /\ replies[i][2].ok
    /\ Contains(Text(i), << CheckMark, " Status changed to " >>)

\* C5: an update with an issue key and nothing else sends no request and
\* reports "No updates requested"; and only a call that sent no request
\* reports it.
C5_NoUpdatesRequested ==
  \A i \in Invocations :
    UpdateDone(i) =>
      /\ (Supplied(i, "issueKey")
            /\ \A k \in ScalarKeys \cup {"transition"} : ~Supplied(i, k))
         => /\ reqs[i] = << >>
            /\ Text(i) = << "Update results for ", Bag(i).issueKey, ":\n\n",
                            "No updates requested" >>
      /\ Positions(Text(i), {"No updates requested"}) # {} => reqs[i] = << >>

C5_Witness ==
  \E i \in Invocations :
    /\ UpdateDone(i)
    /\ DOMAIN Bag(i) = {"issueKey"}
    /\ reqs[i] = << >>
    /\ Text(i)[4] = "No updates requested"

CreateCalled(i) ==
  call[i].name = "jira_create_issue" /\ HasBag(i) /\ pc[i] # "idle"

OptionalCreateKeys == {"description", "priority", "assignee", "labels"}

\* C6: a creation sends exactly one request, a POST of /issue, whose fields
\* always hold project.key, summary and issuetype.name ("Task" when no issue
\* type is supplied) and hold an optional field only if it was supplied; with
\* only projectKey and summary supplied they hold these three and no more.
C6_CreationRequest ==
  \A i \in Invocations :
    CreateCalled(i) =>
      /\ Len(reqs[i]) = 1
      /\ reqs[i][1].method = "POST"
      /\ reqs[i][1].url = << config.baseUrl, "/rest/api/3", "/issue" >>
      /\ DOMAIN reqs[i][1].data = {"fields"}
      /\ LET fields == reqs[i][1].data.fields
             bag == Bag(i)
         IN  /\ {"project", "summary", "issuetype"} \subseteq DOMAIN fields
             /\ DOMAIN fields \subseteq
                  {"project", "summary", "issuetype"} \cup OptionalCreateKeys
             /\ fields.project = [key |-> Get(bag, "projectKey")]
             /\ fields.summary = Get(bag, "summary")
             /\ fields.issuetype =
                  [name |-> IF "issueType" \in DOMAIN bag
                            THEN bag.issueType ELSE "Task"]
             /\ \A k \in OptionalCreateKeys :
                  k \in DOMAIN fields => k \in DOMAIN bag
             /\ "description" \in DOMAIN fields =>
                  fields.description = bag.description
             /\ "priority" \in DOMAIN fields =>
                  fields.priority = [name |-> bag.priority]
             /\ "assignee" \in DOMAIN fields =>
                  fields.assignee = [emailAddress |-> bag.assignee]
             /\ "labels" \in DOMAIN fields =>
                  fields.labels = [k \in DOMAIN bag.labels |->
                                     [name |-> bag.labels[k]]]
             /\ DOMAIN bag = {"projectKey", "summary"} =>
                  fields = [project |-> [key |-> << bag.projectKey >>],
                            summary |-> << bag.summary >>,
                            issuetype |-> [name |-> "Task"]]

\* a creation with the two required arguments only has been answered
C6_Witness ==
  \E i \in Invocations :
    /\ CreateCalled(i) /\ pc[i] = "done"
    /\ DOMAIN Bag(i) = {"projectKey", "summary"}
    /\ Len(reqs[i]) = 1
    /\ DOMAIN reqs[i][1].data.fields = {"project", "summary", "issuetype"}
    /\ reqs[i][1].data.fields.issuetype.name = "Task"

CreateFailed(i) ==
  /\ CreateCalled(i) /\ pc[i] = "done"
  /\ ~replies[i][1].ok

\* the error message mentions the keywords of a hint
MentionsProject(message) ==
  \E k \in DOMAIN message : message[k] \in {"project", "Project"}

MentionsIssueType(message) ==
  \/ \E k \in DOMAIN message : message[k] = "issuetype"
  \/ \E k \in 1 .. (Len(message) - 1) :
       message[k] = "Issue " /\ message[k + 1] = "Type"

MentionsPriority(message) == \E k \in DOMAIN message : message[k] = "priority"

ProjectTips(text) ==
  Positions(text, {"\n\nTip: Make sure the project key \""})

IssueTypeTips(text) ==
  Positions(text, {"\n\nTip: Make sure the issue type \""})

PriorityTips(text) ==
  Positions(text, {"\n\nTip: Make sure the priority \""})

\* C7: a failed creation is reported by the handler itself: the failure
\* marker, the raw message, then the project, issue-type and priority hints,
\* each exactly when the message mentions its keyword, in that order.
C7_CreateFailureHints ==
  \A i \in Invocations :
    CreateFailed(i) =>
      LET message == replies[i][1].message
          text == Text(i)
          rest == SubSeq(text, 3 + Len(message), Len(text))
          tips == ProjectTips(rest) \cup IssueTypeTips(rest) \cup PriorityTips(rest)
      IN  /\ text[1] = CrossMark
          /\ text[2] = " Failed to create issue: "
          /\ SubSeq(text, 3, 2 + Len(message)) = message
          /\ Cardinality(ProjectTips(rest)) =
               IF MentionsProject(message) THEN 1 ELSE 0
          /\ Cardinality(IssueTypeTips(rest)) =
               IF MentionsIssueType(message) THEN 1 ELSE 0
          /\ Cardinality(PriorityTips(rest)) =
               IF MentionsPriority(message) THEN 1 ELSE 0
          /\ \A p \in ProjectTips(rest) :
               \A t \in IssueTypeTips(rest) \cup PriorityTips(rest) : p < t
          /\ \A t \in IssueTypeTips(rest) : \A r \in PriorityTips(rest) : t < r
          /\ Len(rest) = 3 * Cardinality(tips)

\* the message names the priority before the project: the hints come in the
\* fixed order, the project hint first
C7_Witness ==
  \E i \in Invocations :
    /\ CreateFailed(i)
    /\ replies[i][1].message = << "priority", "Project" >>
    /\ ProjectTips(Text(i)) = {5}
    /\ PriorityTips(Text(i)) = {8}
    /\ IssueTypeTips(Text(i)) = {}

SearchAnswered(i) ==
  /\ pc[i] = "done" /\ call[i].name = "jira_search_issues"
  /\ replies[i][1].ok

RemoteIssues(i) ==
  IF "issues" \in DOMAIN replies[i][1].data
  THEN replies[i][1].data.issues ELSE << >>

\* the keys of the issue blocks of a search report, in the order of the text
BlockKeys(text) ==
  LET heads == {k \in 1 .. (Len(text) - 2) :
                  text[k] = "**" /\ text[k + 2] = "**: "}
      order == CHOOSE f \in [1 .. Cardinality(heads) -> heads] :
                 \A a, b \in 1 .. Cardinality(heads) : a < b => f[a] < f[b]
  IN  [k \in 1 .. Cardinality(heads) |-> text[order[k] + 1]]

\* C8: a search report opens "Found N issues:", N the number of issues the
\* remote returned, and holds N blocks in the remote's order; no issues, or
\* no list of issues, gives "Found 0 issues:" and no block, not an error.
C8_SearchReport ==
  \A i \in Invocations :
    SearchAnswered(i) =>
      /\ SubSeq(Text(i), 1, 3) =
           << "Found ", ToString(Len(RemoteIssues(i))), " issues:\n\n" >>
      /\ BlockKeys(Text(i)) =
           [k \in DOMAIN RemoteIssues(i) |-> RemoteIssues(i)[k].key]
      /\ RemoteIssues(i) = << >> =>
           Text(i) = << "Found ", "0", " issues:\n\n" >>

\* two issues, PROJ-2 before PROJ-1, are reported in that order
C8_Witness ==
  \E i \in Invocations :
    /\ SearchAnswered(i)
    /\ Len(RemoteIssues(i)) = 2
    /\ RemoteIssues(i)[1].key = "PROJ-2"
    /\ Text(i)[2] = "2"
    /\ BlockKeys(Text(i)) = << "PROJ-2", "PROJ-1" >>

SearchSent(i) ==
  /\ call[i].name = "jira_search_issues" /\ HasBag(i)
  /\ Supplied(i, "jql")
  /\ reqs[i] # << >>

\* C9: the search request carries the JQL as supplied and, as maxResults,
\* the value supplied, whatever number it is, and 50 only when none is.
C9_MaxResultsVerbatim ==
  \A i \in Invocations :
    SearchSent(i) =>
      /\ reqs[i][1].params.jql = << Bag(i).jql >>
      /\ reqs[i][1].params.maxResults =
           IF Supplied(i, "maxResults") THEN Bag(i).maxResults ELSE 50

\* the same of every supplied number but 0
C9_VerbatimWhenNotZero ==
  \A i \in Invocations :
    (SearchSent(i) /\ ~(Supplied(i, "maxResults") /\ Bag(i).maxResults = 0)) =>
      /\ reqs[i][1].params.jql = << Bag(i).jql >>
      /\ reqs[i][1].params.maxResults =
           IF Supplied(i, "maxResults") THEN Bag(i).maxResults ELSE 50

Range(seq) == {seq[k] : k \in DOMAIN seq}

CatalogEntry(name) ==
  ToolCatalog[CHOOSE k \in DOMAIN ToolCatalog : ToolCatalog[k].name = name]

BagsOf(name) == {args[1] : args \in ArgumentsOf(name) \ {Undefined}}

\* the request carries an argument that was undefined: "undefined" in its
\* path, or an undefined jql, project key or summary
UndefinedIn(request) ==
  \/ "undefined" \in Range(request.url)
  \/ /\ "params" \in DOMAIN request
     /\ "jql" \in DOMAIN request.params
     /\ request.params.jql = Undefined
  \/ /\ "data" \in DOMAIN request
     /\ "fields" \in DOMAIN request.data
     /\ "project" \in DOMAIN request.data.fields
     /\ \/ request.data.fields.project.key = Undefined
        \/ request.data.fields.summary = Undefined

FirstRequestUndefined(name, bag) ==
  LET outcome == Dispatch(JiraConfig(<< >>), name, Some(bag))
  IN  outcome.kind = "await" /\ UndefinedIn(outcome.request)

\* the arguments the handler cannot do without: leaving one out of a bag
\* that is otherwise complete puts an undefined into the request
HandlerRequires(name) ==
  {key \in HandlerArguments(name) :
     \E bag \in BagsOf(name) :
       /\ key \in DOMAIN bag
       /\ ~FirstRequestUndefined(name, bag)
       /\ FirstRequestUndefined(name,
            [k \in DOMAIN bag \ {key} |-> bag[k]])}

\* the catalog against the handlers: required sets, declared arguments
CatalogMatchesHandlers ==
  \A name \in CatalogNames :
    LET schema == CatalogEntry(name).inputSchema
    IN  /\ Range(schema.required) = HandlerRequires(name)
        /\ HandlerArguments(name) \subseteq DOMAIN schema.properties

\* the default the catalog advertises for an argument of a tool
AdvertisedDefault(name, key) ==
  Get(CatalogEntry(name).inputSchema.properties[key], "default")

\* C10: the required arguments of each catalog entry are those its handler
\* cannot do without, every argument a handler reads is declared, the two
\* advertised defaults are the values the handlers send for an omitted
\* argument, and a listing is the same six entries in every state.
C10_CatalogMatchesHandlers ==
  /\ CatalogMatchesHandlers
  /\ Len(ToolCatalog) = 6 /\ Cardinality(CatalogNames) = 6
  /\ listed # Undefined => listed[1] = [tools |-> ToolCatalog]
  /\ \A i \in Invocations :
       (call[i].name \in CatalogNames /\ HasBag(i)) =>
         /\ (Range(CatalogEntry(call[i].name).inputSchema.required)
               \subseteq DOMAIN Bag(i))
            => \A k \in DOMAIN reqs[i] : ~UndefinedIn(reqs[i][k])
         /\ (call[i].name = "jira_search_issues" /\ reqs[i] # << >>
               /\ ~Supplied(i, "maxResults"))
            => << reqs[i][1].params.maxResults >> =
                 AdvertisedDefault("jira_search_issues", "maxResults")
         /\ (call[i].name = "jira_create_issue" /\ reqs[i] # << >>
               /\ ~Supplied(i, "issueType"))
            => << reqs[i][1].data.fields.issuetype.name >> =
                 AdvertisedDefault("jira_create_issue", "issueType")

\* a listing is about to be written out, the handlers requiring what the
\* catalog says they require
C10_Witness ==
  /\ listed # Undefined
  /\ Len(listed[1].tools) = 6
  /\ HandlerRequires("jira_create_issue") = {"projectKey", "summary"}
  /\ HandlerRequires("jira_update_issue") = {"issueKey"}

(***************************************************************************)
(* Get Issue: the acceptance-criteria section of the report.               *)
(***************************************************************************)
\* invocation i is a Get Issue that returned on a successful remote reply
IssueReported(i) ==
  /\ pc[i] = "done"
  /\ call[i].name = "jira_get_issue"
  /\ Len(replies[i]) = 1
  /\ replies[i][1].ok

\* the issue the remote replied with
RemoteIssue(i) == replies[i][1].data

HasRendered(data) ==
  /\ "renderedFields" \in DOMAIN data
  /\ data.renderedFields # Undefined
  /\ "description" \in DOMAIN data.renderedFields

HasRaw(data) == "description" \in DOMAIN data.fields

RECURSIVE NumberedFrom(_, _)
\* "k. first", "\n", "k+1. second", ... of a list of criteria
NumberedFrom(criteria, k) ==
  IF criteria = << >> THEN << >>
  ELSE << ToString(k), ". " >> \o Head(criteria)
       \o (IF Len(criteria) = 1 THEN << >> ELSE << "\n" >>)
       \o NumberedFrom(Tail(criteria), k + 1)

\* the section of the report between its heading and the dates, for the
\* criteria the extractor finds in a description
SectionFor(description) ==
  LET criteria == extractAcceptanceCriteria(description)
  IN  << "\n\n**Acceptance Criteria:**\n" >>
      \o (IF criteria = << >> THEN << "None found" >>
          ELSE NumberedFrom(criteria, 1))
      \o << "\n\n**Created:** " >>

\* the description the section is made from, rendered counting as present
\* when (nonEmpty = FALSE) it is there, or when it is there and not ""
SectionSource(data, nonEmpty) ==
  IF HasRendered(data)
     /\ (nonEmpty => data.renderedFields.description # << >>)
  THEN Some(data.renderedFields.description)
  ELSE IF HasRaw(data) THEN Some(data.fields.description) ELSE Undefined

\* the report is a normal one whose criteria section is "None found" when
\* the issue has no description at all
NoneFoundWithoutDescription(i) ==
  (~HasRendered(RemoteIssue(i)) /\ ~HasRaw(RemoteIssue(i))) =>
    /\ Head(Text(i)) = "**"
    /\ Contains(Text(i), << "\n\n**Acceptance Criteria:**\n", "None found",
                            "\n\n**Created:** " >>)

\* as stated: a rendered description is used whenever it is there, the
\* empty string included
C11_RenderedWhenPresent ==
  \A i \in Invocations :
    IssueReported(i) =>
      /\ NoneFoundWithoutDescription(i)
      /\ Contains(Text(i), SectionFor(SectionSource(RemoteIssue(i), FALSE)))

\* C11: a Get Issue on an issue without any description returns a normal
\* report whose criteria section is "None found"; otherwise the section is
\* the criteria of the extractor numbered 1..n in its order, the extractor
\* being run on the rendered description when that is there and not empty,
\* and on the raw description otherwise.
C11_CriteriaSection ==
  \A i \in Invocations :
    IssueReported(i) =>
      /\ NoneFoundWithoutDescription(i)
      /\ Contains(Text(i), SectionFor(SectionSource(RemoteIssue(i), TRUE)))

\* a report of two criteria or more taken from a rendered description,
\* the raw description holding other criteria
C11_Witness ==
  \E i \in Invocations :
    /\ IssueReported(i)
    /\ HasRendered(RemoteIssue(i)) /\ HasRaw(RemoteIssue(i))
    /\ Len(extractAcceptanceCriteria(
             Some(RemoteIssue(i).renderedFields.description))) >= 2
    /\ extractAcceptanceCriteria(Some(RemoteIssue(i).fields.description))
         # extractAcceptanceCriteria(
             Some(RemoteIssue(i).renderedFields.description))
    /\ Contains(Text(i), << "\n", "2", ". " >>)

\* a report of "None found" on an issue without any description
C11_NoneFoundReached ==
  \E i \in Invocations :
    /\ IssueReported(i)
    /\ ~HasRendered(RemoteIssue(i)) /\ ~HasRaw(RemoteIssue(i))
    /\ Contains(Text(i), << "None found" >>)

(***************************************************************************)
(* The extractor's list.                                                   *)
(***************************************************************************)
\* the raw description of the issue a Get Issue reported, and its criteria
ReportedText(i) == RemoteIssue(i).fields.description

ReportedCriteria(i) == extractAcceptanceCriteria(Some(ReportedText(i)))

\* every match of the five patterns, patterns in their order and the
\* matches of one pattern in the order of the text, each one cleaned
CleanedMatches(text) ==
  LET matches == SectionMatches(text, 1, TRUE)
                 \o SectionMatches(text, 1, FALSE)
                 \o ScenarioMatches(text)
                 \o LineMatches(text, 1, CheckboxHeads)
                 \o LineMatches(text, 1, BulletHeads)
  IN  [k \in DOMAIN matches |-> Cleaned(matches[k])]

\* the positions of the cleaned matches that are first seen and not empty
FirstSeen(cleaned) ==
  {k \in DOMAIN cleaned :
     /\ cleaned[k] # << >>
     /\ \A j \in 1 .. (k - 1) : cleaned[j] # cleaned[k]}

\* list is the cleaned matches at the first-seen positions, in order
InFirstSeenOrder(list, cleaned) ==
  /\ Len(list) = Cardinality(FirstSeen(cleaned))
  /\ \A n \in DOMAIN list :
       \E k \in FirstSeen(cleaned) :
         /\ Cardinality({j \in FirstSeen(cleaned) : j < k}) = n - 1
         /\ list[n] = cleaned[k]

\* the text holds something a pattern recognises
Recognisable(text) ==
  \/ \E k \in DOMAIN text :
       text[k] \in AcAtoms \cup CheckboxHeads \cup BulletHeads
  \/ \E g, w, t \in DOMAIN text :
       g < w /\ w < t
       /\ text[g] = "Given" /\ text[w] = "when" /\ text[t] = "then"

\* no empty string, no string twice, first-seen order, and the empty list
\* of a text without a pattern
ExactDuplicatesSuppressed(list, text) ==
  /\ \A k \in DOMAIN list : list[k] # << >>
  /\ \A j, k \in DOMAIN list : j # k => list[j] # list[k]
  /\ InFirstSeenOrder(list, CleanedMatches(text))
  /\ ~Recognisable(text) => list = << >>

\* a is a Given/When/Then sentence
IsScenario(a) ==
  /\ a # << >> /\ Head(a) = "Given"
  /\ \E w, t \in DOMAIN a : w < t /\ a[w] = "when" /\ a[t] = "then"

\* b is a as a bullet line
BulletLineOf(a, b) == b = << "* " >> \o a

\* C12 as stated: the list has no empty string and no string twice, holds
\* the cleaned matches in first-seen order, is empty for a text without a
\* pattern and for the empty description, and holds a Given/When/Then
\* sentence that is also a bullet line once.
C12_ExtractorList ==
  /\ extractAcceptanceCriteria(Undefined) = << >>
  /\ extractAcceptanceCriteria(Some(<< >>)) = << >>
  /\ \A i \in Invocations :
       IssueReported(i) =>
         /\ ExactDuplicatesSuppressed(ReportedCriteria(i), ReportedText(i))
         /\ \A j, k \in DOMAIN ReportedCriteria(i) :
              IsScenario(ReportedCriteria(i)[j]) =>
                ~BulletLineOf(ReportedCriteria(i)[j], ReportedCriteria(i)[k])

\* the same without the sentence that is also a bullet line
C12_ExactDuplicates ==
  /\ extractAcceptanceCriteria(Undefined) = << >>
  /\ extractAcceptanceCriteria(Some(<< >>)) = << >>
  /\ \A i \in Invocations :
       IssueReported(i) =>
         ExactDuplicatesSuppressed(ReportedCriteria(i), ReportedText(i))

\* a report whose list is shorter than the matches: one was suppressed
C12_SuppressionReached ==
  \E i \in Invocations :
    /\ IssueReported(i)
    /\ Len(ReportedCriteria(i)) >= 2
    /\ Len(ReportedCriteria(i)) < Len(CleanedMatches(ReportedText(i)))

(***************************************************************************)
(* The request builder, seen in the request an invocation awaits.          *)
(***************************************************************************)
\* the issue key in the path: the template of a missing key is "undefined"
PathKey(i) ==
  IF HasBag(i) /\ Supplied(i, "issueKey") THEN Bag(i).issueKey
  ELSE "undefined"

\* the endpoint the handler awaiting at pc[i] passed to the builder
AskedEndpoint(i) ==
  CASE pc[i] = "getIssue" -> << "/issue/", PathKey(i) >>
    [] pc[i] = "searchIssues" -> << "/search" >>
    [] pc[i] = "getIssueComments" -> << "/issue/", PathKey(i), "/comment" >>
    [] pc[i] \in {"getTransitions", "updateIssue_get", "updateIssue_post"} ->
         << "/issue/", PathKey(i), "/transitions" >>
    [] pc[i] = "updateIssue_put" -> << "/issue/", PathKey(i) >>
    [] pc[i] = "createIssue" -> << "/issue" >>

\* the method it asked for, if any
AskedMethod(i) ==
  CASE pc[i] \in {"updateIssue_post", "createIssue"} -> Some("POST")
    [] pc[i] = "updateIssue_put" -> Some("PUT")
    [] OTHER -> Undefined

\* the query parameters it passed, if any
AskedParams(i) ==
  CASE pc[i] = "getIssue" ->
         Some([fields |-> "summary,status,assignee,priority,created,updated,description,issuetype,reporter,parent",
               expand |-> "renderedFields"])
    [] pc[i] = "searchIssues" ->
         Some([jql |-> OptGet(call[i].arguments, "jql"),
               maxResults |-> MaxResultsOf(call[i].arguments),
               fields |-> "summary,status,assignee,priority,created,updated"])
    [] OTHER -> Undefined

\* the JSON body it passed, if any
AskedData(i) ==
  CASE pc[i] = "updateIssue_post" ->
         Some([transition |-> [id |-> loc[i].availableTransition[1].id]])
    [] pc[i] = "updateIssue_put" -> Some([fields |-> UpdateFields(Bag(i))])
    [] pc[i] = "createIssue" -> Some([fields |-> CreateFields(Bag(i))])
    [] OTHER -> Undefined

\* C13: the request an invocation awaits targets {baseUrl}/rest/api/3 plus
\* the endpoint its handler passed, carries the Basic authorization of the
\* configured email and token, has the method the handler asked for and
\* GET when it asked for none, declares the JSON content type exactly when
\* its method is not GET, and carries the handler's query parameters and
\* body as they are, and none when the handler passed none.
C13_RequestBuilder ==
  \A i \in Invocations :
    outstanding[i] # Undefined =>
      LET request == outstanding[i][1]
      IN  /\ request.url = << config.baseUrl, "/rest/api/3" >> \o AskedEndpoint(i)
          /\ request.headers.Authorization =
               << "Basic ", "base64(", config.email, ":", config.apiToken, ")" >>
          /\ request.method =
               (IF AskedMethod(i) = Undefined THEN "GET" ELSE AskedMethod(i)[1])
          /\ request.method \in {"GET", "POST", "PUT"}
          /\ ("Content-Type" \in DOMAIN request.headers) <=> request.method # "GET"
          /\ request.method # "GET" =>
               request.headers["Content-Type"] = "application/json"
          /\ Get(request, "params") = AskedParams(i)
          /\ Get(request, "data") = AskedData(i)
          /\ request = reqs[i][Len(reqs[i])]

\* a PUT with a body is awaited, a GET without one having gone before it
C13_Witness ==
  \E i \in Invocations :
    /\ pc[i] = "updateIssue_put"
    /\ outstanding[i] # Undefined
    /\ outstanding[i][1].method = "PUT"
    /\ "summary" \in DOMAIN outstanding[i][1].data.fields
    /\ Len(reqs[i]) >= 2
    /\ reqs[i][1].method = "GET"
    /\ "Content-Type" \notin DOMAIN reqs[i][1].headers
    /\ "data" \notin DOMAIN reqs[i][1]

(***************************************************************************)
(* The order of the requests of one invocation.                            *)
(***************************************************************************)
MethodsOf(i) == [k \in DOMAIN reqs[i] |-> reqs[i][k].method]

\* of the requests invocation i has issued, all have completed but the one
\* it awaits, if it awaits one
OneAtATime(i) ==
  /\ Len(reqs[i]) =
       Len(replies[i]) + (IF outstanding[i] # Undefined THEN 1 ELSE 0)
  /\ outstanding[i] # Undefined =>
       /\ outstanding[i][1] = reqs[i][Len(reqs[i])]
       /\ pc[i] \notin {"idle", "done", "escaped"}
  /\ outstanding[i] = Undefined => pc[i] \in {"idle", "done", "escaped"}

\* the requests of an update: the GET of the transitions first when a
\* transition is asked for, a POST only second and only after a GET that
\* succeeded, a PUT only last
UpdateOrder(i) ==
  call[i].name = "jira_update_issue" =>
    /\ MethodsOf(i) \in { << >>, << "GET" >>, << "PUT" >>, << "GET", "POST" >>,
                          << "GET", "PUT" >>, << "GET", "POST", "PUT" >> }
    /\ (HasBag(i) /\ Supplied(i, "transition")
          /\ Bag(i).transition # << >> /\ reqs[i] # << >>)
       => /\ reqs[i][1].method = "GET"
          /\ reqs[i][1].url[Len(reqs[i][1].url)] = "/transitions"
    /\ \A k \in DOMAIN reqs[i] :
         reqs[i][k].method = "POST" =>
           /\ k = 2
           /\ reqs[i][1].method = "GET"
           /\ replies[i][1].ok

\* a step that issues a request issues one, and all the requests the
\* invocation had issued before have completed by then
IssuesAfterCompletion ==
  \A i \in Invocations :
    Len(reqs'[i]) > Len(reqs[i]) =>
      /\ Len(reqs'[i]) = Len(reqs[i]) + 1
      /\ SubSeq(reqs'[i], 1, Len(reqs[i])) = reqs[i]
      /\ Len(replies'[i]) = Len(reqs[i])
      /\ outstanding'[i] = Some(reqs'[i][Len(reqs'[i])])

\* C14: an invocation never has two requests outstanding and issues a
\* request only when every earlier one of its own has completed; the
\* requests of an Update Issue come in the order GET of the transitions,
\* POST of the transition, PUT of the fields, the POST only after a GET
\* that succeeded.
C14_Sequential ==
  /\ [](\A i \in Invocations : OneAtATime(i) /\ UpdateOrder(i))
  /\ [][IssuesAfterCompletion]_vars

\* an update has issued its three requests and awaits the third
C14_Witness ==
  \E i \in Invocations :
    /\ pc[i] = "updateIssue_put"
    /\ MethodsOf(i) = << "GET", "POST", "PUT" >>
    /\ Len(replies[i]) = 2
    /\ replies[i][1].ok /\ replies[i][2].ok

(***************************************************************************)
(* Invocations side by side.                                               *)
(***************************************************************************)
\* what one invocation holds: its position, the request it awaits, the
\* requests it has issued, its locals and its response
Slot(i) ==
  [pc |-> pc[i], outstanding |-> outstanding[i], reqs |-> reqs[i],
   loc |-> loc[i], resp |-> resp[i]]

\* a slot after a handler step that ended in `outcome`
SlotAfter(slot, outcome) ==
  IF outcome.kind = "await"
  THEN [pc |-> outcome.at, outstanding |-> Some(outcome.request),
        reqs |-> Append(slot.reqs, outcome.request),
        loc |-> outcome.locals, resp |-> slot.resp]
  ELSE [pc |-> IF outcome.kind = "return" THEN "done" ELSE "escaped",
        outstanding |-> Undefined, reqs |-> slot.reqs, loc |-> NoLocals,
        resp |-> IF outcome.kind = "return"
                 THEN Some(outcome.envelope) ELSE Undefined]

RECURSIVE Alone(_, _, _)
\* the slot of an invocation that runs with no other beside it: a function
\* of the configuration, of its name and arguments, and of the replies to
\* its own requests
Alone(cfg, c, answers) ==
  IF answers = << >>
  THEN SlotAfter([reqs |-> << >>, resp |-> Undefined],
                 Catch(Dispatch(cfg, c.name, c.arguments)))
  ELSE
    LET before == Alone(cfg, c, SubSeq(answers, 1, Len(answers) - 1))
    IN  SlotAfter(before,
                  Catch(Continue(cfg, before.pc, c.name, c.arguments,
                                 before.loc, answers[Len(answers)])))

\* every invocation under way is where it would be alone
AsIfAlone ==
  \A i \in Invocations :
    pc[i] # "idle" => Slot(i) = Alone(config, call[i], replies[i])

\* a step leaves the configuration as it is and changes what one
\* invocation holds at most
OneInvocationSteps ==
  /\ config' = config
  /\ \E i \in Invocations :
       \A j \in Invocations \ {i} :
         /\ Slot(j)' = Slot(j)
         /\ call'[j] = call[j]
         /\ replies'[j] = replies[j]

\* C15: with invocations running side by side and the remote answering in
\* any order, what an invocation has issued and what it returns are those
\* of the same invocation running alone on the same configuration, name,
\* arguments and replies; a step of one invocation changes neither the
\* configuration nor anything another invocation holds.
C15_Independent ==
  /\ []AsIfAlone
  /\ [][OneInvocationSteps]_vars

\* two updates of the same arguments side by side, each awaiting the POST
\* of a different transition
C15_Witness ==
  \E i, j \in Invocations :
    /\ i # j
    /\ pc[i] = "updateIssue_post" /\ pc[j] = "updateIssue_post"
    /\ call[i] = call[j]
    /\ outstanding[i][1].data.transition.id
         # outstanding[j][1].data.transition.id
    /\ loc[i] # loc[j]

(***************************************************************************)
(* Termination.                                                            *)
(***************************************************************************)
Awaiting(i) == pc[i] \notin {"idle", "done", "escaped"}

\* an invocation has issued three requests at most, and one at most unless
\* it is an update; one that has returned holds one envelope of one block
\* and awaits nothing
BoundedRequests(i) ==
  /\ Len(reqs[i]) <= 3
  /\ call[i].name # "jira_update_issue" => Len(reqs[i]) <= 1
  /\ pc[i] # "escaped"
  /\ pc[i] = "done" =>
       /\ resp[i] # Undefined
       /\ Len(resp[i][1].content) = 1
       /\ outstanding[i] = Undefined
       /\ Len(replies[i]) = Len(reqs[i])
  /\ pc[i] # "done" => resp[i] = Undefined

\* an invocation that awaits a request gets its response in no other step
\* than one that completes that request, and a response once there stays
\* as it is until it is written out
ReturnsOnCompletion ==
  \A i \in Invocations :
    /\ (Awaiting(i) /\ (resp'[i] # resp[i] \/ pc'[i] # pc[i])) =>
         Len(replies'[i]) = Len(replies[i]) + 1
    /\ (resp[i] # Undefined /\ resp'[i] # resp[i]) =>
         (resp'[i] = Undefined /\ pc'[i] = "idle")

\* every invocation under way returns in the end
EveryInvocationReturns ==
  \A i \in Invocations : (pc[i] # "idle") ~> (pc[i] = "done")

\* C16: when every remote request completes in the end, every invocation
\* returns one envelope in the end, after three requests at most and after
\* one at most unless it is an update; no invocation returns while a
\* request of its own is outstanding, and the only step that gives an
\* awaiting invocation its response is the completion of that request.
C16_Terminates ==
  /\ [](\A i \in Invocations : BoundedRequests(i))
  /\ [][ReturnsOnCompletion]_vars
  /\ EveryInvocationReturns

\* an update has returned after three requests while another invocation
\* still awaits its one request
C16_Witness ==
  \E i, j \in Invocations :
    /\ pc[i] = "done" /\ call[i].name = "jira_update_issue"
    /\ Len(reqs[i]) = 3 /\ Len(replies[i]) = 3
    /\ Awaiting(j) /\ Len(reqs[j]) = 1 /\ resp[j] = Undefined

====
